---- MODULE Spec2Model ----
(***************************************************************************)
(* Model of the voice-assistant HTTP facade (backend/api.py) and of the    *)
(* contact-link lookup (backend/main.py).                                  *)
(*                                                                         *)
(* The facade is a single asyncio process: a handler runs without          *)
(* interruption from one await to the next.  Each action below is one such *)
(* uninterrupted stretch of a handler.  The external agent SDK is a black  *)
(* box: its awaited calls either return or raise.                          *)
(***************************************************************************)
EXTENDS Integers, Sequences, FiniteSets, TLC

\* ------------------------------------------------------------------ bounds
MaxSessions == 2      \* start_session requests served in one behaviour
MaxRequests == 2      \* chat requests served in one behaviour
MaxListLen == 3       \* conversation items in a list given to the reply scan
MaxWords == 5         \* fragments a query of the link lookup is built from

VARIABLES
    sessions,         \* api.py:34   the registry: session id -> wrapper object
    created,          \* number of uuid4 values / wrapper objects made so far
    session_started,  \* api.py:64   wrapper object -> its session_started flag
    startCalls,       \* wrapper object -> times self.session.start was invoked
    sendCalls,        \* times VoiceAgentSession.send_message was entered
    pc,               \* chat request -> where its coroutine is suspended
    reqId,            \* chat request -> the session_id path parameter
    reqSession,       \* chat request -> its local variable `session`
    lastOp,           \* the handler stretch that ran last, and what it sent
    words,            \* fragments of the query given to the link lookup
    link_result,      \* what get_priyanka_link_response returned for it
    chat_items,       \* handle.chat_items given to the reply scan
    reply             \* what the reply scan returned for it

vars == <<sessions, created, session_started, startCalls, sendCalls, pc, reqId,
          reqSession, lastOp, words, link_result, chat_items, reply>>

facadeVars == <<sessions, created, session_started, startCalls, sendCalls, pc,
                reqId, reqSession, lastOp>>
linkVars == <<words, link_result>>
replyVars == <<chat_items, reply>>

Requests == 1..MaxRequests
\* Session ids a client may send: the uuids start_session can hand out, and 0,
\* an id that start_session never hands out.
AllIds == 0..MaxSessions

\* Python's None where a wrapper object is expected (wrappers are numbered from 1).
NoSession == 0
\* Python's None as an item's text_content, role or type.
NoText == "<None>"
\* Python's None as the result of the link lookup (a real result is never empty).
NoMatch == <<>>
\* A reply, and a lookup result, that has not been computed yet.
Unset == "<unset>"
UnsetLink == <<"<unset>">>

\* ------------------------------------------------------- reply scan (pure)
ItemTexts == {NoText, "", "hi", "bye", "[No response]"}

\* The conversation items the SDK can hand back: messages of either role with
\* any text, and function-call items, which have neither role nor text.
ChatItems ==
    [type : {"message"}, role : {"assistant", "user"}, text : ItemTexts]
    \cup [type : {"function_call"}, role : {NoText}, text : {NoText}]

\* What a reply handle carries in the facade model: no item, or any single one
\* (longer lists are given to the scan in the specification of the scan alone).
ReplyLists == {<<>>} \cup {<<item>> : item \in ChatItems}

\* api.py:86  the list comprehension keeping assistant-authored messages, in order
assistant_messages(items) ==
    SelectSeq(items, LAMBDA item : item.type = "message" /\ item.role = "assistant")

\* api.py:88  `x or ""`
OrEmpty(text) == IF text = NoText \/ text = "" THEN "" ELSE text

\* A scan that keeps the first assistant message instead of the last.
scan_reply_first(items) ==
    LET msgs == assistant_messages(items)
    IN IF Len(msgs) > 0 THEN OrEmpty(msgs[1].text) ELSE "[No response]"

\* api.py:86-89  what send_message returns once the reply handle has completed
scan_reply(items) ==
    LET msgs == assistant_messages(items)
    IN IF Len(msgs) > 0 THEN OrEmpty(msgs[Len(msgs)].text) ELSE "[No response]"

\* ------------------------------------------------------ link lookup (pure)
\* Text is a sequence of one-character strings, so that `in` is a real
\* substring search and lower() a real conversion.
Chars(w) ==
    CASE w = "github"  -> <<"g", "i", "t", "h", "u", "b">>
      [] w = "email"   -> <<"e", "m", "a", "i", "l">>
      [] w = "phone"   -> <<"p", "h", "o", "n", "e">>
      [] w = "number"  -> <<"n", "u", "m", "b", "e", "r">>
      [] w = "contact" -> <<"c", "o", "n", "t", "a", "c", "t">>

\* Pieces a caller's text is put together from: the keywords in several
\* spellings, halves of a keyword that meet only when adjacent, a near miss.
Fragments ==
    { <<"G", "i", "t", "H", "u", "b">>,
      <<"g", "i", "t">>,
      <<"h", "u", "b">>,
      <<"E", "M", "A", "I", "L">>,
      <<"e", "-", "m", "a", "i", "l">>,
      <<"p", "h", "o", "n", "e">>,
      <<"N", "u", "m", "b", "e", "r">>,
      <<"c", "o", "n", "t", "a", "c", "t">>,
      <<" ">> }

\* main.py:52  str.lower(), on the characters that occur
LowerChar(c) ==
    CASE c = "G" -> "g" [] c = "H" -> "h" [] c = "E" -> "e" [] c = "M" -> "m"
      [] c = "A" -> "a" [] c = "I" -> "i" [] c = "L" -> "l" [] c = "N" -> "n"
      [] OTHER -> c

Lower(s) == [i \in 1..Len(s) |-> LowerChar(s[i])]

\* Python's `key in text` on strings: key occurs as a contiguous substring
Contains(text, key) ==
    \E i \in 1..(Len(text) - Len(key) + 1) : SubSeq(text, i, i + Len(key) - 1) = key

RECURSIVE Flatten(_)
Flatten(ws) == IF ws = <<>> THEN <<>> ELSE Head(ws) \o Flatten(Tail(ws))

\* main.py:36-49  the table; a dict iterates in insertion order
\* (each description is cut at its dash)
PRIYANKA_LINKS ==
    [github |-> [url |-> "https://github.com/Priyanka2-ui",
                 description |-> "Priyanka's GitHub profile"],
     email  |-> [url |-> "mailto:priyankashilwant321@gmail.com",
                 description |-> "Priyanka's email"],
     phone  |-> [url |-> "tel:+917887509502",
                 description |-> "Priyanka's phone number"]]

\* A table that lists email before github.
KeyOrderEmailFirst == <<"email", "github", "phone">>

\* main.py:37,41,45  the order PRIYANKA_LINKS.items() yields the keys in
KeyOrder == <<"github", "email", "phone">>

\* main.py:54-58  the condition under which the loop returns at `key`
KeyMatches(key, q) ==
    \/ Contains(q, Chars(key))
    \/ key = "email" /\ (Contains(q, Chars("email")) \/ Contains(q, Chars("contact")))
    \/ key = "phone" /\ (\/ Contains(q, Chars("phone"))
                         \/ Contains(q, Chars("number"))
                         \/ Contains(q, Chars("contact")))

\* main.py:59  f"{data['url']} -- {data['description']}", as its three parts
LinkText(key) == <<PRIYANKA_LINKS[key].url, " - ", PRIYANKA_LINKS[key].description>>

RECURSIVE FirstMatch(_, _)
\* main.py:53-60  the loop over the table: return at the first key that matches
FirstMatch(keys, q) ==
    IF keys = <<>> THEN NoMatch
    ELSE IF KeyMatches(Head(keys), q) THEN LinkText(Head(keys))
    ELSE FirstMatch(Tail(keys), q)

\* main.py:51-60
get_priyanka_link_response(user_query) == FirstMatch(KeyOrder, Lower(user_query))

\* ------------------------------------------------------------------ facade
\* What a handler stretch did: the endpoint, the chat request (0: none), the
\* session id it named, the HTTP status and body it sent (0: nothing sent yet),
\* and for end_session whether the `if session:` branch ran.
Op(op, r, id, status, body) ==
    [op |-> op, r |-> r, id |-> id, status |-> status, body |-> body,
     found |-> FALSE]

\* Where a chat coroutine can be: not arrived, suspended in an await, or over.
InFlight == {"in_start", "in_reply"}
Over == {"not_found", "start_failed", "reply_failed", "replied"}

\* api.py:110,113,118  the HTTP status a chat request has been answered with
StatusAt(where) ==
    CASE where = "not_found" -> 404
      [] where \in {"start_failed", "reply_failed"} -> 500
      [] where = "replied" -> 200
      [] OTHER -> 0

Status(r) == StatusAt(pc[r])

Init ==
    /\ sessions = <<>>
    /\ created = 0
    /\ session_started = <<>>
    /\ startCalls = <<>>
    /\ sendCalls = 0
    /\ pc = [r \in Requests |-> "idle"]
    /\ reqId = [r \in Requests |-> 0]
    /\ reqSession = [r \in Requests |-> NoSession]
    /\ lastOp = Op("boot", 0, 0, 0, "")
    /\ words = <<>>
    /\ link_result = UnsetLink
    /\ chat_items = <<>>
    /\ reply = Unset

\* Requests are numbered in the order in which they arrive.
Arrives(r) == pc[r] = "idle" /\ \A q \in Requests : q < r => pc[q] # "idle"

\* api.py:97  str(uuid.uuid4()): an id no earlier call returned
NewSessionId == created + 1

\* api.py:98,43-64  VoiceAgentSession(): a new object
NewWrapper == created + 1

\* One wrapper object stored under every id.
start_session_shared ==
    /\ created < MaxSessions
    /\ sessions' = (NewSessionId :> (IF created = 0 THEN NewWrapper ELSE created))
                   @@ sessions
    /\ created' = created + 1
    /\ session_started' = (NewWrapper :> FALSE) @@ session_started
    /\ startCalls' = (NewWrapper :> 0) @@ startCalls
    /\ lastOp' = Op("start_session", 0, NewSessionId, 200, "session_id")
    /\ UNCHANGED <<sendCalls, pc, reqId, reqSession, linkVars, replyVars>>

\* api.py:94-100  POST /session/start, the constructor succeeding
start_session ==
    /\ created < MaxSessions
    /\ sessions' = (NewSessionId :> NewWrapper) @@ sessions
    /\ created' = created + 1
    /\ session_started' = (NewWrapper :> FALSE) @@ session_started
    /\ startCalls' = (NewWrapper :> 0) @@ startCalls
    /\ lastOp' = Op("start_session", 0, NewSessionId, 200, "session_id")
    /\ UNCHANGED <<sendCalls, pc, reqId, reqSession, linkVars, replyVars>>

\* api.py:96-98,101-103  POST /session/start, the constructor raising: the
\* assignment into the registry is never reached
start_session_fails ==
    /\ lastOp' = Op("start_session", 0, 0, 500, "Failed to start session")
    /\ UNCHANGED <<sessions, created, session_started, startCalls, sendCalls, pc,
                   reqId, reqSession, linkVars, replyVars>>

\* A lookup that falls back to the newest wrapper.
sessions_get_newest(id) ==
    IF id \in DOMAIN sessions THEN sessions[id]
    ELSE IF created > 0 THEN created ELSE NoSession

\* api.py:108  sessions.get(session_id)
sessions_get(id) == IF id \in DOMAIN sessions THEN sessions[id] ELSE NoSession

\* A start that also holds back while another call is inside session.start.
must_start_single_flight(w) ==
    /\ ~session_started[w]
    /\ \A q \in Requests : ~(pc[q] = "in_start" /\ reqSession[q] = w)

\* api.py:71  `if not self.session_started`
must_start(w) == ~session_started[w]

\* api.py:106-112,82-85,70-72  POST /session/{id}/chat from its arrival to its
\* first await: the lookup, then either the 404 or send_message up to the
\* awaited session.start (flag clear) or the awaited reply handle (flag set)
chat(r, id) ==
    /\ Arrives(r)
    /\ LET session == sessions_get(id) IN
       IF session = NoSession
       THEN /\ pc' = [pc EXCEPT ![r] = "not_found"]
            /\ reqId' = [reqId EXCEPT ![r] = id]
            /\ lastOp' = Op("chat", r, id, 404, "Session not found")
            /\ UNCHANGED <<reqSession, sendCalls, startCalls>>
       ELSE /\ reqId' = [reqId EXCEPT ![r] = id]
            /\ reqSession' = [reqSession EXCEPT ![r] = session]
            /\ sendCalls' = sendCalls + 1
            /\ lastOp' = Op("chat", r, id, 0, "")
            /\ IF must_start(session)
               THEN /\ startCalls' = [startCalls EXCEPT ![session] = @ + 1]
                    /\ pc' = [pc EXCEPT ![r] = "in_start"]
               ELSE /\ pc' = [pc EXCEPT ![r] = "in_reply"]
                    /\ UNCHANGED startCalls
    /\ UNCHANGED <<sessions, created, session_started, linkVars, replyVars>>

\* api.py:72-80,84-85  the awaited session.start returns: the flag is set,
\* generate_reply is called and its handle awaited
start_returns(r) ==
    /\ pc[r] = "in_start"
    /\ session_started' = [session_started EXCEPT ![reqSession[r]] = TRUE]
    /\ pc' = [pc EXCEPT ![r] = "in_reply"]
    /\ lastOp' = Op("start_returns", r, reqId[r], 0, "")
    /\ UNCHANGED <<sessions, created, startCalls, sendCalls, reqId, reqSession,
                   linkVars, replyVars>>

\* api.py:72,116-118  the awaited session.start raises: line 80 is skipped and
\* the endpoint turns the exception into a 500
start_raises(r) ==
    /\ pc[r] = "in_start"
    /\ pc' = [pc EXCEPT ![r] = "start_failed"]
    /\ lastOp' = Op("start_raises", r, reqId[r], 500, "Failed to process message")
    /\ UNCHANGED <<sessions, created, session_started, startCalls, sendCalls,
                   reqId, reqSession, linkVars, replyVars>>

\* api.py:85-89,113  the awaited reply handle completes: its items are scanned
\* and the text is sent with status 200
reply_returns(r) ==
    /\ pc[r] = "in_reply"
    /\ \E items \in ReplyLists :
           lastOp' = Op("reply_returns", r, reqId[r], 200, scan_reply(items))
    /\ pc' = [pc EXCEPT ![r] = "replied"]
    /\ UNCHANGED <<sessions, created, session_started, startCalls, sendCalls,
                   reqId, reqSession, linkVars, replyVars>>

\* A failure handler that drops the session and answers 404.
reply_raises_drops(r) ==
    /\ pc[r] = "in_reply"
    /\ pc' = [pc EXCEPT ![r] = "not_found"]
    /\ sessions' = [i \in DOMAIN sessions \ {reqId[r]} |-> sessions[i]]
    /\ lastOp' = Op("reply_raises", r, reqId[r], 404, "Session not found")
    /\ UNCHANGED <<created, session_started, startCalls, sendCalls, reqId,
                   reqSession, linkVars, replyVars>>

\* api.py:84-85,116-118  generate_reply or its awaited handle raises: the
\* endpoint turns the exception into a 500
reply_raises(r) ==
    /\ pc[r] = "in_reply"
    /\ pc' = [pc EXCEPT ![r] = "reply_failed"]
    /\ lastOp' = Op("reply_raises", r, reqId[r], 500, "Failed to process message")
    /\ UNCHANGED <<sessions, created, session_started, startCalls, sendCalls,
                   reqId, reqSession, linkVars, replyVars>>

\* A removal written as `del sessions[session_id]`: a KeyError, hence a 500,
\* when the id is absent.
end_session_strict(id) ==
    /\ IF id \in DOMAIN sessions
       THEN /\ sessions' = [i \in DOMAIN sessions \ {id} |-> sessions[i]]
            /\ lastOp' = [Op("end_session", 0, id, 200, "ended") EXCEPT !.found = TRUE]
       ELSE /\ sessions' = sessions
            /\ lastOp' = Op("end_session", 0, id, 500, "Failed to end session")
    /\ UNCHANGED <<created, session_started, startCalls, sendCalls, pc, reqId,
                   reqSession, linkVars, replyVars>>

\* A removal that empties the registry.
end_session_clears(id) ==
    /\ sessions' = <<>>
    /\ lastOp' = [Op("end_session", 0, id, 200, "ended")
                    EXCEPT !.found = id \in DOMAIN sessions]
    /\ UNCHANGED <<created, session_started, startCalls, sendCalls, pc, reqId,
                   reqSession, linkVars, replyVars>>

\* A removal that also cancels the chats in flight on the session.
end_session_cancels(id) ==
    /\ sessions' = [i \in DOMAIN sessions \ {id} |-> sessions[i]]
    /\ pc' = [r \in Requests |->
                 IF pc[r] \in InFlight /\ reqId[r] = id
                 THEN "reply_failed" ELSE pc[r]]
    /\ lastOp' = [Op("end_session", 0, id, 200, "ended")
                    EXCEPT !.found = id \in DOMAIN sessions]
    /\ UNCHANGED <<created, session_started, startCalls, sendCalls, reqId,
                   reqSession, linkVars, replyVars>>

\* api.py:120-127,91-92  POST /session/{id}/end: sessions.pop(id, None), then
\* close(), which does nothing; there is no await in the handler
end_session(id) ==
    /\ sessions' = [i \in DOMAIN sessions \ {id} |-> sessions[i]]
    /\ lastOp' = [Op("end_session", 0, id, 200, "ended")
                    EXCEPT !.found = id \in DOMAIN sessions]
    /\ UNCHANGED <<created, session_started, startCalls, sendCalls, pc, reqId,
                   reqSession, linkVars, replyVars>>

\* api.py:132-134  GET /
root ==
    /\ lastOp' = Op("root", 0, 0, 200, "healthy")
    /\ UNCHANGED <<sessions, created, session_started, startCalls, sendCalls, pc,
                   reqId, reqSession, linkVars, replyVars>>

\* api.py:136-138  GET /health
health ==
    /\ lastOp' = Op("health", 0, 0, 200, "healthy")
    /\ UNCHANGED <<sessions, created, session_started, startCalls, sendCalls, pc,
                   reqId, reqSession, linkVars, replyVars>>

Next ==
    \/ start_session
    \/ start_session_fails
    \/ \E r \in Requests, id \in AllIds : chat(r, id)
    \/ \E r \in Requests : start_returns(r)
    \/ \E r \in Requests : start_raises(r)
    \/ \E r \in Requests : reply_returns(r)
    \/ \E r \in Requests : reply_raises(r)
    \/ \E id \in AllIds : end_session(id)
    \/ root
    \/ health

Spec == Init /\ [][Next]_vars

\* ------------------------------------------- the link lookup, run by itself
\* The caller's text grows by one fragment.
add_fragment ==
    /\ link_result = UnsetLink
    /\ Len(words) < MaxWords
    /\ \E f \in Fragments : words' = Append(words, f)
    /\ UNCHANGED <<link_result, facadeVars, replyVars>>

\* main.py:51-60  the lookup is called on the text
ask_link ==
    /\ link_result = UnsetLink
    /\ link_result' = get_priyanka_link_response(Flatten(words))
    /\ UNCHANGED <<words, facadeVars, replyVars>>

NextLinks == add_fragment \/ ask_link

SpecLinks == Init /\ [][NextLinks]_vars

\* --------------------------------------------- the reply scan, run by itself
\* The reply produces one more conversation item.
add_item ==
    /\ reply = Unset
    /\ Len(chat_items) < MaxListLen
    /\ \E item \in ChatItems : chat_items' = Append(chat_items, item)
    /\ UNCHANGED <<reply, facadeVars, linkVars>>

\* api.py:85-89  the handle completes and send_message scans its items
scan_items ==
    /\ reply = Unset
    /\ reply' = scan_reply(chat_items)
    /\ UNCHANGED <<chat_items, facadeVars, linkVars>>

NextReply == add_item \/ scan_items

SpecReply == Init /\ [][NextReply]_vars

\* ================================================================== claims
\* Request r's chat handler starts in this step (its id is reqId'[r]).
ChatArrives(r) == pc[r] = "idle" /\ pc'[r] # "idle"

\* Request r's chat handler resumes from an await and finishes in this step.
ChatFinishes(r) == pc[r] \in InFlight /\ pc'[r] \in Over

\* This step is end_session(id), or leaves the state as end_session(id) left it.
EndStep(id) == lastOp'.op = "end_session" /\ lastOp'.id = id

Without(f, id) == [i \in DOMAIN f \ {id} |-> f[i]]

\* C1: a chat on an id that is not in the registry is answered 404 "Session
\* not found", never enters send_message or session.start, and leaves the
\* registry as it was; an id that has left the registry never comes back, so
\* every chat that begins after end_session(id) is answered 404.
C1_UnknownSessionIs404 ==
    [][ /\ \A r \in Requests :
              (ChatArrives(r) /\ reqId'[r] \notin DOMAIN sessions)
              => /\ pc'[r] = "not_found"
                 /\ lastOp' = Op("chat", r, reqId'[r], 404, "Session not found")
                 /\ sendCalls' = sendCalls
                 /\ startCalls' = startCalls
                 /\ sessions' = sessions
        /\ \A r \in Requests : pc[r] = "not_found" => pc'[r] = "not_found"
        /\ \A id \in 1..created : id \notin DOMAIN sessions => id \notin DOMAIN sessions'
      ]_vars

\* C1 witness: a chat on an id that start_session issued and end_session
\* removed has just been answered 404.
C1_Witness ==
    /\ lastOp.op = "chat"
    /\ lastOp.status = 404
    /\ lastOp.id \in 1..created
    /\ pc[lastOp.r] = "not_found"

\* C2: end_session on any id (registered, removed or never issued) answers
\* {status: "ended"} with no error and leaves the registry without that id and
\* with every other entry as it was; on an id already absent it changes nothing.
C2_EndIdempotent ==
    [][ \A id \in AllIds :
            EndStep(id)
            => /\ lastOp'.status = 200
               /\ lastOp'.body = "ended"
               /\ sessions' = Without(sessions, id)
               /\ (id \notin DOMAIN sessions => sessions' = sessions)
      ]_vars

\* C2 witness: end_session has just answered "ended" for an id that had been
\* issued and was already removed (a repeated end), with another session still
\* registered.
C2_Witness ==
    /\ lastOp.op = "end_session"
    /\ lastOp.id \in 1..created
    /\ ~lastOp.found
    /\ lastOp.status = 200
    /\ DOMAIN sessions # {}

\* C3 (as claimed): over any sequence of chat calls on one session, the
\* underlying session.start is invoked at most once.
C3_StartAtMostOnce == \A w \in DOMAIN startCalls : startCalls[w] <= 1

\* C4: every registered id maps to one constructed wrapper, no wrapper is
\* registered under two ids, an id start_session has just returned is
\* registered, and a registered id keeps its wrapper in every step that is not
\* an end_session on that very id.
C4_RegistryInvariant ==
    [][ /\ \A id \in DOMAIN sessions' : sessions'[id] \in 1..created'
        /\ \A i, j \in DOMAIN sessions' : sessions'[i] = sessions'[j] => i = j
        /\ (lastOp'.op = "start_session" /\ lastOp'.status = 200)
           => lastOp'.id \in DOMAIN sessions'
        /\ \A id \in DOMAIN sessions :
              \/ id \in DOMAIN sessions' /\ sessions'[id] = sessions[id]
              \/ EndStep(id)
      ]_vars

\* C4 witness: one session has just been ended while another, on which a chat
\* has failed, is still registered.
C4_Witness ==
    /\ lastOp.op = "end_session"
    /\ lastOp.found
    /\ \E r \in Requests :
          /\ Status(r) = 500
          /\ reqId[r] \in DOMAIN sessions
          /\ reqId[r] # lastOp.id
          /\ sessions[reqId[r]] = reqSession[r]

\* The caller's text as the lookup sees it, and whether a keyword occurs in it.
QueryText == Lower(Flatten(words))
Has(w) == Contains(QueryText, Chars(w))

\* C5 (as claimed): text containing "email" or "contact" yields the email
\* entry, text containing "github" yields the GitHub entry, and text matching
\* no key or alias yields None.
C5_AsClaimed ==
    link_result # UnsetLink
    => /\ (Has("email") \/ Has("contact")) => link_result = LinkText("email")
       /\ Has("github") => link_result = LinkText("github")
       /\ ~(Has("github") \/ Has("email") \/ Has("contact") \/ Has("phone")
            \/ Has("number")) => link_result = NoMatch

\* C5 (amended): the first key of the table order github, email, phone that
\* matches decides: "github" yields the GitHub entry; otherwise "email" or
\* "contact" yields the email entry; otherwise "phone" or "number" yields the
\* phone entry; otherwise the result is None.
C5_FirstKeyWins ==
    link_result # UnsetLink
    => link_result =
          IF Has("github") THEN LinkText("github")
          ELSE IF Has("email") \/ Has("contact") THEN LinkText("email")
          ELSE IF Has("phone") \/ Has("number") THEN LinkText("phone")
          ELSE NoMatch

\* C5 witness: a query that holds all five keywords at once has been looked up
\* and got the GitHub entry.
C5_Witness ==
    /\ link_result = LinkText("github")
    /\ Has("github") /\ Has("email") /\ Has("phone") /\ Has("number") /\ Has("contact")

\* C6: a chat that found its session and whose session.start or reply raises
\* is answered 500 with the failure message, by a step that leaves the registry
\* as it was; a chat in flight is never answered 404; 404 is sent only by a
\* chat whose id is absent on arrival, and a chat whose id is registered on
\* arrival always finds the wrapper registered under it.
C6_WrapperFailureIs500 ==
    [][ \A r \in Requests :
          /\ (pc[r] \in InFlight /\ pc'[r] # pc[r]
              /\ lastOp'.op \in {"start_raises", "reply_raises"})
             => /\ StatusAt(pc'[r]) = 500
                /\ lastOp'.status = 500
                /\ lastOp'.r = r
                /\ lastOp'.body = "Failed to process message"
                /\ sessions' = sessions
          /\ (pc[r] \in InFlight /\ pc'[r] # pc[r])
             => /\ pc'[r] # "not_found"
                /\ lastOp'.status # 404
                /\ (pc'[r] \in Over
                    => lastOp'.r = r /\ lastOp'.status = StatusAt(pc'[r]))
          /\ (pc[r] # "not_found" /\ pc'[r] = "not_found")
             => pc[r] = "idle" /\ reqId'[r] \notin DOMAIN sessions
          /\ (ChatArrives(r) /\ reqId'[r] \in DOMAIN sessions)
             => pc'[r] \in InFlight /\ reqSession'[r] = sessions[reqId'[r]]
      ]_vars

\* C6 witness: a chat has just found the session on which an earlier chat
\* was answered 500.
C6_Witness ==
    /\ lastOp.op = "chat"
    /\ lastOp.status = 0
    /\ pc[lastOp.r] \in InFlight
    /\ \E q \in Requests :
          /\ Status(q) = 500
          /\ reqId[q] = lastOp.id
          /\ reqSession[q] = reqSession[lastOp.r]

\* Positions of the assistant-authored messages of a list, and the last one.
IsAssistantMessage(item) == item.type = "message" /\ item.role = "assistant"
AssistantAt(items) == {i \in 1..Len(items) : IsAssistantMessage(items[i])}
LastAssistant(items) ==
    CHOOSE i \in AssistantAt(items) : \A j \in AssistantAt(items) : j <= i

\* C7 (as claimed): the reply is the text of the last assistant message, and
\* it is "[No response]" if and only if the list has no assistant message.
C7_AsClaimed ==
    reply # Unset
    => /\ AssistantAt(chat_items) # {}
          => reply = chat_items[LastAssistant(chat_items)].text
       /\ reply = "[No response]" <=> AssistantAt(chat_items) = {}

\* C7 (amended): the reply is the text of the last assistant message, or the
\* empty string when that message has no text; it is "[No response]" whenever
\* the list has no assistant message, and otherwise only when the last
\* assistant message's own text is "[No response]".
C7_LastAssistantText ==
    reply # Unset
    => /\ AssistantAt(chat_items) # {}
          => LET text == chat_items[LastAssistant(chat_items)].text
             IN reply = (IF text = NoText THEN "" ELSE text)
       /\ AssistantAt(chat_items) = {} => reply = "[No response]"
       /\ reply = "[No response]"
          => \/ AssistantAt(chat_items) = {}
             \/ chat_items[LastAssistant(chat_items)].text = "[No response]"

\* C7 witness: a list with two assistant messages of different texts followed
\* by an item that is no assistant message has been scanned, and the reply is
\* the second one's text.
C7_Witness ==
    /\ Len(chat_items) = 3
    /\ IsAssistantMessage(chat_items[1])
    /\ IsAssistantMessage(chat_items[2])
    /\ ~IsAssistantMessage(chat_items[3])
    /\ chat_items[1].text = "hi"
    /\ chat_items[2].text = "bye"
    /\ reply = "bye"

\* C8: nothing serialises chats on one session: whenever a chat arrives for a
\* registered session whose flag is still clear, it passes the `not started`
\* check and invokes session.start, also while another chat is suspended
\* inside session.start on the same session.
C8_NoStartGuard ==
    \A r \in Requests, id \in DOMAIN sessions :
        (Arrives(r) /\ ~session_started[sessions[id]])
        => ENABLED (/\ chat(r, id)
                    /\ pc'[r] = "in_start"
                    /\ startCalls'[sessions[id]] = startCalls[sessions[id]] + 1)

\* C8 witness: two chats on one session are suspended inside session.start at
\* once, and session.start has been invoked twice on that session.
C8_Witness ==
    \E r, q \in Requests :
        /\ r # q
        /\ pc[r] = "in_start"
        /\ pc[q] = "in_start"
        /\ reqSession[r] = reqSession[q]
        /\ startCalls[reqSession[r]] = 2
        /\ ~session_started[reqSession[r]]

\* C9 (as claimed): the flag is clear at construction, is set only by a
\* session.start that returned, and is never cleared again; when session.start
\* raises during a chat the flag stays clear, the chat is answered 500, and the
\* next chat on the session invokes session.start again.
C9_AsClaimed ==
    [][ /\ \A w \in DOMAIN session_started' :
              /\ w \notin DOMAIN session_started => ~session_started'[w]
              /\ (w \in DOMAIN session_started /\ session_started[w])
                 => session_started'[w]
              /\ (w \in DOMAIN session_started /\ ~session_started[w]
                  /\ session_started'[w])
                 => /\ lastOp'.op = "start_returns"
                    /\ pc[lastOp'.r] = "in_start"
                    /\ reqSession[lastOp'.r] = w
        /\ \A r \in Requests :
              (pc[r] = "in_start" /\ pc'[r] = "start_failed")
              => /\ ~session_started'[reqSession[r]]
                 /\ lastOp'.status = 500
        /\ \A r \in Requests :
              (lastOp.op = "start_raises" /\ ChatArrives(r)
               /\ reqId'[r] = lastOp.id /\ pc'[r] \in InFlight)
              => /\ pc'[r] = "in_start"
                 /\ startCalls'[reqSession'[r]] = startCalls[reqSession'[r]] + 1
      ]_vars

\* C10: end_session(id) removes the id at once and touches no chat in flight;
\* a chat in flight never ends in 404 and its completion changes no registry
\* entry, so the id stays absent; a reply that returns is answered 200; a chat
\* waiting for its reply can complete whether or not its id is still
\* registered; and a chat arriving for an absent id is answered 404.
C10_EndDuringChat ==
    [][ /\ \A id \in AllIds :
              EndStep(id)
              => /\ id \notin DOMAIN sessions'
                 /\ pc' = pc
                 /\ reqSession' = reqSession
        /\ \A r \in Requests :
              /\ (pc[r] \in InFlight /\ pc'[r] # pc[r])
                 => /\ pc'[r] # "not_found"
                    /\ sessions' = sessions
                    /\ (lastOp'.op = "reply_returns"
                        => pc'[r] = "replied" /\ lastOp'.status = 200)
              /\ pc[r] = "in_reply" => ENABLED reply_returns(r)
              /\ pc[r] = "in_start" => ENABLED start_returns(r)
              /\ (ChatArrives(r) /\ reqId'[r] \notin DOMAIN sessions)
                 => pc'[r] = "not_found"
      ]_vars

\* C10 witness: a chat whose session was ended while it was in flight has
\* been answered 200, its id is still absent, and a chat that arrived for that
\* id in the meantime was answered 404.
C10_Witness ==
    /\ lastOp.op = "reply_returns"
    /\ lastOp.status = 200
    /\ pc[lastOp.r] = "replied"
    /\ lastOp.id \notin DOMAIN sessions
    /\ \E q \in Requests : q > lastOp.r /\ pc[q] = "not_found" /\ reqId[q] = lastOp.id

====
